---- MODULE Spec2Model ----
(***************************************************************************)
(* A model of specviz's PlotSubWindow (src/specviz/widgets/sub_windows.py) *)
(* and of the ROI part of the older pyfocal PlotSubWindow                  *)
(* (src/pyfocal/ui/widgets/sub_windows.py).                                *)
(*                                                                         *)
(* Six specifications share the variables:                                 *)
(*   Spec         the plots of one window: add_plot, remove_plot and       *)
(*                change_units;                                            *)
(*   SpecRoi      the ROIs of a window: add_roi, the ROI signals and       *)
(*                get_roi_mask;                                            *)
(*   SpecMarkers  the line-list markers of a window: _plot_linelists,      *)
(*                erase_linelabels, handle_zoom and the zoom signal.  A    *)
(*                handler that adds or removes plot items runs one item a  *)
(*                step, because each addItem and removeItem may emit the   *)
(*                zoom signal and run its handlers inside the call.        *)
(*   SpecWindows  the plot windows of the application and their line-list  *)
(*                windows: the show, dismiss and activation events, which  *)
(*                every live window receives, and closeEvent.              *)
(*   SpecEquivWidth  the regular and the equivalent-width ROIs of the      *)
(*                pyfocal window: add_roi and _toggle_equiv_width.         *)
(*   SpecActive   the visibility of the plots of one window: add_plot,     *)
(*                remove_plot, set_active_plot and the tick boxes of the   *)
(*                layer list (plot.checked).                               *)
(*                                                                         *)
(* Coordinates are integers: the wavelength and flux axes are a grid on    *)
(* which every division the code makes (by 2, by 4) is exact.              *)
(***************************************************************************)
EXTENDS Integers, Sequences, FiniteSets, Bags, TLC

VARIABLES
    plots,          \* self._plots: the list of LinePlot objects
    plot_units,     \* self._plot_units, None before the first change_units
    axis_layer,     \* self._dynamic_axis._layer
    rois,           \* self._rois: the list of LinearRegionItem objects
    items,          \* the graphics items attached to self._plot_item (a bag)
    view,           \* self._plot_item.viewRange(): <<<<xmin, xmax>>, <<ymin, ymax>>>>
    events,         \* the dispatch events emitted by the handler that ran last
    call,           \* the handler that ran last, and what the claims need of it
    linelists,      \* self.linelists: the line lists ingest() loaded
    merged,         \* self._merged_linelist, and whether the attribute exists
    is_displaying_markers,  \* self._is_displaying_markers
    is_selected,    \* self._is_selected
    linelist_window,        \* whether self._linelist_window is a window (not None)
    connections,    \* connections of sigYRangeChanged to _process_zoom_signal
    stack,          \* the handlers that are running, innermost first
    disp_line,      \* self._disp_line.value(): the dispersion indicator line
    zoom_thread,    \* the ZoomMarkersThreads started and the ZoomEventBuffer's values
    other,          \* the other PlotSubWindow of the application, if there is one
    closed,         \* the windows whose closeEvent has run
    equiv_width     \* pyfocal: self._equiv_width_rois and the two ROI actions

markerVars == <<linelists, merged, is_displaying_markers, is_selected,
                linelist_window, connections, stack>>
windowVars == <<disp_line, other, closed, equiv_width>>
vars == <<plots, plot_units, axis_layer, rois, items, view, events, call,
          linelists, merged, is_displaying_markers, is_selected,
          linelist_window, connections, stack, disp_line, zoom_thread,
          other, closed, equiv_width>>

\* Python's None, for each kind of value the model compares it with.
None == "None"
NoBounds == <<>>
NoUnits == <<>>
NoMask == <<>>
NoLayer == [name |-> "None"]
NoRoi == [id |-> 0]
NoMarker == [id |-> 0, x |-> 0, y |-> 0, short_form |-> FALSE]
\* The window before it has a _merged_linelist attribute.
NoList == [set |-> FALSE, rows |-> <<>>]
\* An application with no other plot window.
NoWindow == [exists |-> FALSE, is_selected |-> FALSE, linelist_window |-> FALSE]

\* ------------------------------------------------------------------ bounds

MaxPlots == 2
MaxRoiPlots == 1
MaxRois == 2
MaxMarkerItems == 3

\* ------------------------------------------------------------------ inputs

\* Layers the data model can hand to the window. masked_dispersion.data.value
\* is `disp`, layer_mask is `layer_mask`; `interp` marks the layer add_plot
\* makes by resampling ("Interpolated <name>").
LayerA == [name |-> "A", interp |-> FALSE, disp |-> <<2, 4, 6>>,
           layer_mask |-> <<TRUE, TRUE, FALSE>>,
           dispersion_unit |-> "Angstrom", unit |-> "Jy", uncertainty |-> TRUE]
LayerC == [name |-> "C", interp |-> FALSE, disp |-> <<0, 4, 8>>,
           layer_mask |-> <<TRUE, TRUE, TRUE>>,
           dispersion_unit |-> "nm", unit |-> "Jy", uncertainty |-> TRUE]
LayerD == [name |-> "D", interp |-> FALSE, disp |-> <<3, 5, 7>>,
           layer_mask |-> <<TRUE, FALSE, TRUE>>,
           dispersion_unit |-> "pixel", unit |-> "count", uncertainty |-> FALSE]

LayerPool == {LayerA, LayerC, LayerD}

\* astropy's is_equivalent on the units the pool uses: wavelengths convert
\* into one another, pixels and counts convert into nothing else.
UnitFamily(u) ==
    CASE u \in {"Angstrom", "nm"} -> "wavelength"
      [] OTHER -> u
is_equivalent(u, v) == UnitFamily(u) = UnitFamily(v)

\* The units a "changed_units" event asks for.
UnitPairs == {<<"nm", "Jy">>, <<"nm", "count">>}

XRanges == {<<0, 8>>, <<-8, 8>>}
YRanges == {<<0, 10>>, <<2, 6>>}
RoiBounds == {<<1, 3>>, <<4, 6>>}

\* ------------------------------------------------------------------ helpers

RECURSIVE SeqSum(_)
SeqSum(s) == IF s = <<>> THEN 0 ELSE Head(s) + SeqSum(Tail(s))

Range(s) == {s[k] : k \in DOMAIN s}

\* The least object id not in `used`: a new Python object is no object that is
\* still referenced.
FreshId(used) ==
    CHOOSE n \in 1..(Cardinality(used) + 1) :
        n \notin used /\ \A m \in 1..(n - 1) : m \in used

\* s without its first element equal to x (list.remove).
RECURSIVE list_remove(_, _)
list_remove(s, x) ==
    IF s = <<>> THEN <<>>
    ELSE IF Head(s) = x THEN Tail(s)
    ELSE <<Head(s)>> \o list_remove(Tail(s), x)

\* PlotItem.addItem / PlotItem.removeItem on the bag of attached items:
\* removeItem of an item that is not attached does nothing.
addItem(bag, item) == bag (+) SetToBag({item})
removeItem(bag, item) == IF BagIn(item, bag) THEN bag (-) SetToBag({item}) ELSE bag

\* The graphics items of a plot: its curve, and its error and mask items
\* when it has them.
CurveItem(p) == <<"curve", p.id>>
ErrorItem(p) == <<"error", p.id>>
MaskItem(p) == <<"mask", p.id>>
RoiItem(r) == <<"roi", r.id>>
DispLineItem == <<"disp_line", 0>>

Event(name, arg) == [name |-> name, arg |-> arg]
Emitted(name) == \E k \in DOMAIN events : events[k].name = name

\* What a handler leaves in `call`: its name and its inputs.
Call(op, arg) == [op |-> op, arg |-> arg]
\* The arguments of a handler the claims need nothing of.
NoArg == [none |-> TRUE]

\* ------------------------------------------------------------------ plots

disable_errors == FALSE
disable_mask == TRUE

\* get_plot: the first plot of the list whose layer is `layer`, as an index
\* (0: there is none, the code's None).
get_plot_index(ps, layer) ==
    IF \E k \in DOMAIN ps : ps[k].layer = layer
    THEN CHOOSE k \in DOMAIN ps :
            ps[k].layer = layer /\ \A j \in 1..(k - 1) : ps[j].layer # layer
    ELSE 0

get_all_layers == [k \in DOMAIN plots |-> plots[k].layer]

\* set_visibility: acts on get_plot(layer), and on nothing when it is None.
set_visibility(ps, layer, show_data, show_uncert, show_masked) ==
    LET k == get_plot_index(ps, layer)
    IN  IF k = 0 THEN ps
        ELSE [ps EXCEPT ![k].vis_data = show_data,
                        ![k].vis_error = show_uncert,
                        ![k].vis_mask = show_masked]

\* set_active_plot: the loop over self._plots, from plot number k on.
RECURSIVE set_active_plot_from(_, _, _)
set_active_plot_from(ps, layer, k) ==
    IF k > Len(ps) THEN ps
    ELSE LET plot == ps[k]
             next == IF plot.checked
                     THEN IF plot.layer = layer
                          THEN set_visibility(ps, plot.layer, TRUE,
                                              ~disable_errors, ~disable_mask)
                          ELSE set_visibility(ps, plot.layer, TRUE, FALSE, FALSE)
                     ELSE set_visibility(ps, plot.layer, FALSE, FALSE, FALSE)
         IN  set_active_plot_from(next, layer, k + 1)

set_active_plot(ps, layer) == set_active_plot_from(ps, layer, 1)

\* np.mean(d[1:] - d[:-1]) as a fraction <<sum, count>>.
Diffs(d) == [k \in 1..(Len(d) - 1) |-> d[k + 1] - d[k]]
MeanStep(d) == <<SeqSum(Diffs(d)), Len(d) - 1>>

\* comp_disp: np.isclose of the two mean steps (on the grid: equality of the
\* two fractions).
comp_disp(plot, layer) ==
    LET lstep == MeanStep(layer.disp)
        pstep == MeanStep(plot.layer.disp)
    IN  lstep[1] * pstep[2] = pstep[1] * lstep[2]

same_dispersion(layer) == \A k \in DOMAIN plots : comp_disp(plots[k], layer)

\* The layer add_plot makes when the user accepts the resample prompt: the
\* data of `layer` on the dispersion of the first plot, with the units and
\* the layer_mask of `layer`.
resampled(layer) ==
    [layer EXCEPT !.interp = TRUE, !.disp = plots[1].layer.disp]

\* LinePlot.from_layer: a new plot object, shown and checked.
from_layer(layer) ==
    [id |-> FreshId({plots[k].id : k \in DOMAIN plots}),
     layer |-> layer,
     units |-> <<layer.dispersion_unit, layer.unit>>,
     error |-> layer.uncertainty,
     mask |-> TRUE,
     checked |-> TRUE,
     vis_data |-> TRUE, vis_error |-> FALSE, vis_mask |-> FALSE]

\* LinePlot.change_units(x, y, z): <<the plot after it, is_convert_success>>.
\* An axis is converted when the unit asked for is equivalent to the plot's.
LinePlot_change_units(plot, x, y) ==
    LET okx == x # None /\ is_equivalent(plot.units[1], x)
        oky == y # None /\ is_equivalent(plot.units[2], y)
    IN  [plot |-> [plot EXCEPT !.units = <<IF okx THEN x ELSE @[1],
                                           IF oky THEN y ELSE @[2]>>],
         ok |-> <<okx, oky>>]

\* The layer add_plot goes on with after the dispersion check: the resampled
\* one when the steps differ and the user accepts the prompt, else the layer
\* it was given (also when the user declines).
layer_after_prompt(layer, accept) ==
    IF ~same_dispersion(layer) /\ accept THEN resampled(layer) ELSE layer

\* (mutant) add_plot gives up when the user declines the resample prompt.
proceeds_only_when_resampled(layer, accept) == same_dispersion(layer) \/ accept

\* Whether add_plot goes on to LinePlot.from_layer after the dispersion
\* check: it always does, whatever the prompt's answer was.
proceeds_after_prompt(layer, accept) == TRUE

\* (mutant) the new plot is rejected only when both conversions failed.
conversion_rejected_both(ok) ==
    Len(plots) # 0 /\ (~ok[1] /\ ~ok[2])

\* Whether add_plot rejects the new plot: only a later plot can be rejected,
\* when one of the x and y conversions failed.
conversion_rejected(ok) ==
    Len(plots) # 0 /\ (~ok[1] \/ ~ok[2])

\* add_plot, the "on_add_layer" listener. `window` is None, "self" or
\* "other"; `accept` is the answer to the resample prompt, if it is shown.
add_plot(layer, window, accept) ==
    LET mismatch == ~same_dispersion(layer)
        lyr == layer_after_prompt(layer, accept)
        made == from_layer(lyr)
        conv == IF Len(plots) = 0
                THEN [plot |-> made, ok |-> <<TRUE, TRUE>>]
                ELSE LinePlot_change_units(made, plot_units[1], plot_units[2])
        new_plot == conv.plot
        arg == NoArg
    IN
    IF window # None /\ window # "self"
    THEN /\ call' = Call("add_plot", arg)
         /\ events' = <<>>
         /\ UNCHANGED <<plots, plot_units, axis_layer, rois, items, view>>
         /\ UNCHANGED <<markerVars, windowVars, zoom_thread>>
    ELSE IF ~proceeds_after_prompt(layer, accept)
    THEN /\ call' = Call("add_plot", arg)
         /\ events' = <<>>
         /\ UNCHANGED <<plots, plot_units, axis_layer, rois, items, view>>
         /\ UNCHANGED <<markerVars, windowVars, zoom_thread>>
    ELSE IF conversion_rejected(conv.ok)
    THEN /\ call' = Call("add_plot", arg)
         /\ events' = <<Event("on_remove_layer", lyr)>>
         /\ UNCHANGED <<plots, plot_units, axis_layer, rois, items, view>>
         /\ UNCHANGED <<markerVars, windowVars, zoom_thread>>
    ELSE
    LET with_error == IF new_plot.error
                      THEN addItem(items, ErrorItem(new_plot)) ELSE items
        with_mask == IF new_plot.mask
                     THEN addItem(with_error, MaskItem(new_plot))
                     ELSE with_error
        appended == Append(plots, new_plot)
    IN  /\ plot_units' = IF Len(plots) = 0
                         THEN <<lyr.dispersion_unit, lyr.unit, None>>
                         ELSE plot_units
        /\ items' = addItem(with_mask, CurveItem(new_plot))
        /\ plots' = set_active_plot(appended, new_plot.layer)
        /\ axis_layer' = appended[1].layer
        /\ events' = <<Event("on_added_layer", lyr),
                       Event("on_added_plot", <<new_plot.id, window>>)>>
        /\ call' = Call("add_plot", arg)
        /\ UNCHANGED <<rois, view>>
        /\ UNCHANGED <<markerVars, windowVars, zoom_thread>>

\* remove_plot, the "on_removed_layer" listener: the loop removes from the
\* list it iterates over, so the plot after a removed one is skipped.
RECURSIVE remove_plot_from(_, _, _, _)
remove_plot_from(ps, its, layer, k) ==
    IF k > Len(ps) THEN [plots |-> ps, items |-> its]
    ELSE LET plot == ps[k]
         IN  IF plot.layer = layer
             THEN LET i1 == removeItem(its, CurveItem(plot))
                      i2 == IF plot.error THEN removeItem(i1, ErrorItem(plot)) ELSE i1
                      i3 == IF plot.mask THEN removeItem(i2, MaskItem(plot)) ELSE i2
                  IN  remove_plot_from(list_remove(ps, plot), i3, layer, k + 1)
             ELSE remove_plot_from(ps, its, layer, k + 1)

remove_plot(layer, window) ==
    /\ call' = Call("remove_plot", NoArg)
    /\ events' = <<>>
    /\ IF window # None /\ window # "self"
       THEN UNCHANGED <<plots, items>>
       ELSE LET r == remove_plot_from(plots, items, layer, 1)
            IN  plots' = r.plots /\ items' = r.items
    /\ UNCHANGED <<plot_units, axis_layer, rois, view>>
    /\ UNCHANGED <<markerVars, windowVars, zoom_thread>>

\* change_units, the "changed_units" listener: every plot converts what it
\* can, auto-ranging is enabled again and the window's units are set. The
\* range changes auto-ranging makes are the view-range events of the model.
change_units(x, y) ==
    /\ plots' = [k \in DOMAIN plots |-> LinePlot_change_units(plots[k], x, y).plot]
    /\ plot_units' = <<x, y, None>>
    /\ events' = <<>>
    /\ call' = Call("change_units", NoArg)
    /\ UNCHANGED <<axis_layer, rois, items, view>>
    /\ UNCHANGED <<markerVars, windowVars, zoom_thread>>

\* set_active_plot(layer), as the layer list calls it when the user selects
\* a layer.
select_plot(layer) ==
    /\ plots' = set_active_plot(plots, layer)
    /\ events' = <<>>
    /\ call' = Call("set_active_plot", [layer |-> layer])
    /\ UNCHANGED <<plot_units, axis_layer, rois, items, view>>
    /\ UNCHANGED <<markerVars, windowVars, zoom_thread>>

\* The layer list ticks or unticks the check box of plot k: plot.checked,
\* the attribute set_active_plot reads, changes.
plot_checked_changed(k) ==
    /\ k \in DOMAIN plots
    /\ plots' = [plots EXCEPT ![k].checked = ~plots[k].checked]
    /\ events' = <<>>
    /\ call' = Call("plot_checked_changed", [plot |-> plots[k].id])
    /\ UNCHANGED <<plot_units, axis_layer, rois, items, view>>
    /\ UNCHANGED <<markerVars, windowVars, zoom_thread>>

\* The indices a "changed_dispersion_position" event carries: two inside the
\* dispersion of a pool layer (-1 is Python's index of the last sample), two
\* outside it on either side.
PosPool == {-4, -1, 0, 3}

\* self._plots[0].layer.dispersion[pos] with Python's indexing: IndexError is
\* raised when there is no first plot or pos is outside -len .. len - 1.
dispersion_at(ps, pos) ==
    IF ps = <<>>
    THEN [raised |-> TRUE, value |-> 0]
    ELSE LET d == ps[1].layer.disp
             n == Len(d)
         IN  IF pos >= n \/ pos < -n
             THEN [raised |-> TRUE, value |-> 0]
             ELSE [raised |-> FALSE,
                   value |-> IF pos >= 0 THEN d[pos + 1] ELSE d[n + pos + 1]]

\* (mutant) an IndexError leaves the indicator line where it was.
line_value_kept(line, got) == IF got.raised THEN line ELSE got.value

\* The value _move_vertical_line gives the indicator line: `disp` starts as
\* 0 and is overwritten only when the lookup succeeds.
line_value(line, got) == IF got.raised THEN 0 ELSE got.value

\* InfiniteLine.setValue: sigPositionChanged fires when the value changes,
\* and the window's lambda emits change_dispersion_position with it.
position_changed(old, new) ==
    IF old # new
    THEN <<Event("change_dispersion_position", [pos |-> new])>>
    ELSE <<>>

\* _move_vertical_line, the "changed_dispersion_position" listener.
move_vertical_line(pos) ==
    LET got == dispersion_at(plots, pos)
        disp == line_value(disp_line, got)
    IN  /\ disp_line' = disp
        /\ events' = (IF got.raised
                      THEN <<Event("logging.error", [raised |-> "IndexError"])>>
                      ELSE <<>>) \o position_changed(disp_line, disp)
        /\ call' = Call("move_vertical_line", [pos |-> pos, raised |-> got.raised])
        /\ UNCHANGED <<plots, plot_units, axis_layer, rois, items, view>>
        /\ UNCHANGED <<markerVars, zoom_thread, other, closed, equiv_width>>

\* ------------------------------------------------------------------ ROIs

\* (mutant) the default region starts a quarter of the width from 0, not
\* from the left end of the view.
default_bounds_from_zero(view_range) ==
    LET x_len == (view_range[1][2] - view_range[1][1]) \div 2
        x_pos == x_len \div 2
    IN  <<x_pos, x_pos + x_len>>

\* add_roi's default region: the middle half of the horizontal view range.
default_bounds(view_range) ==
    LET x_len == (view_range[1][2] - view_range[1][1]) \div 2
        x_pos == x_len \div 2 + view_range[1][1]
    IN  <<x_pos, x_pos + x_len>>

\* The region add_roi gives the new ROI.
roi_bounds(bounds, view_range) ==
    IF bounds = NoBounds THEN default_bounds(view_range) ELSE bounds

\* (mutant) the closure drops the first ROI of the list.
rois_after_remove_first(rs, roi) == Tail(rs)

\* What the closure `remove` leaves of self._rois.
rois_after_remove(rs, roi) == list_remove(rs, roi)

\* (mutant) on_updated_rois is published before the closure has run.
remove_requested_publish_first(rs, roi) ==
    LET after == rois_after_remove(rs, roi)
    IN  [rois |-> after,
         events |-> <<Event("on_updated_rois", rs),
                      Event("removed_roi", roi.id)>>]

\* The two handlers of roi.sigRemoveRequested, in connection order: the
\* closure `remove` (detach, forget, removed_roi), then the lambda that
\* publishes on_updated_rois with self._rois as it then is.
remove_requested_handlers(rs, roi) ==
    LET after == rois_after_remove(rs, roi)
    IN  [rois |-> after,
         events |-> <<Event("removed_roi", roi.id),
                      Event("on_updated_rois", after)>>]

\* What add_roi publishes with on_updated_rois: self._rois after the append.
published_on_add(rs, roi) == Append(rs, roi)

\* add_roi(bounds): bounds is NoBounds or a pair <<start, stop>>.
add_roi(bounds) ==
    /\ Len(rois) < MaxRois
    /\ LET se == roi_bounds(bounds, view)
           roi == [id |-> FreshId({rois[k].id : k \in DOMAIN rois}),
                   x1 |-> se[1], x2 |-> se[2]]
       IN  /\ rois' = Append(rois, roi)
           /\ items' = addItem(items, RoiItem(roi))
           /\ events' = <<Event("on_updated_rois", published_on_add(rois, roi)),
                          Event("added_roi", roi.id)>>
           /\ call' = Call("add_roi", [bounds |-> bounds, roi |-> roi.id,
                                       rois |-> rois, items |-> items])
    /\ UNCHANGED <<plots, plot_units, axis_layer, view>>
    /\ UNCHANGED <<markerVars, windowVars, zoom_thread>>

\* roi.sigRemoveRequested for the ROI at position k of self._rois.
\* `undoes_add` records that the ROI is the one the handler before added;
\* `rois` and `items` are then the ROI list and the attached items from
\* before that add_roi, else those from before this removal.
remove_requested(k) ==
    /\ k \in DOMAIN rois
    /\ LET roi == rois[k]
           r == remove_requested_handlers(rois, roi)
           undoes == call.op = "add_roi" /\ call.arg.roi = roi.id
       IN  /\ rois' = r.rois
           /\ items' = removeItem(items, RoiItem(roi))
           /\ events' = r.events
           /\ call' = Call("remove",
                           [roi |-> roi.id, undoes_add |-> undoes,
                            rois |-> IF undoes THEN call.arg.rois ELSE rois,
                            items |-> IF undoes THEN call.arg.items ELSE items])
    /\ UNCHANGED <<plots, plot_units, axis_layer, view>>
    /\ UNCHANGED <<markerVars, windowVars, zoom_thread>>

\* The keys a key-press event carries.
Keys == {"Delete", "Backspace", "A"}

\* eventFilter's loop `for roi in self._rois`, from position k on: a hovered
\* ROI emits sigRemoveRequested, whose handlers run at once and take the ROI
\* out of the list the loop is iterating over.  `hovered` holds the ROIs
\* whose mouseHovering is true.
RECURSIVE remove_hovered_from(_, _, _, _, _)
remove_hovered_from(rs, its, evs, hovered, k) ==
    IF k > Len(rs) THEN [rois |-> rs, items |-> its, events |-> evs]
    ELSE LET roi == rs[k]
         IN  IF roi.id \in hovered
             THEN LET r == remove_requested_handlers(rs, roi)
                  IN  remove_hovered_from(r.rois, removeItem(its, RoiItem(roi)),
                                          evs \o r.events, hovered, k + 1)
             ELSE remove_hovered_from(rs, its, evs, hovered, k + 1)

\* eventFilter for a key press: Delete and Backspace run the loop and the
\* filter returns True (the event is consumed); any other key is passed on.
eventFilter(key, hovered) ==
    /\ hovered \subseteq {rois[k].id : k \in DOMAIN rois}
    /\ IF key \in {"Delete", "Backspace"}
       THEN LET r == remove_hovered_from(rois, items, <<>>, hovered, 1)
            IN  /\ rois' = r.rois
                /\ items' = r.items
                /\ events' = r.events
       ELSE /\ events' = <<>>
            /\ UNCHANGED <<rois, items>>
    /\ call' = Call("eventFilter",
                    [key |-> key, hovered |-> hovered,
                     consumed |-> key \in {"Delete", "Backspace"}])
    /\ UNCHANGED <<plots, plot_units, axis_layer, view>>
    /\ UNCHANGED <<markerVars, windowVars, zoom_thread>>

\* get_roi_mask(layer, roi=roi): roi is NoRoi (all the ROIs of the window) or
\* one ROI. The result is NoMask when the layer has no plot in the window.
logical_or(a, b) == [k \in DOMAIN a |-> a[k] \/ b[k]]
logical_and(a, b) == [k \in DOMAIN a |-> a[k] /\ b[k]]

RECURSIVE reduce_or(_)
reduce_or(holder) ==
    IF Len(holder) = 1 THEN holder[1]
    ELSE LET rest == Tail(holder)
         IN  reduce_or(<<logical_or(holder[1], rest[1])>> \o Tail(rest))

\* (mutant) the upper bound of the ROI is excluded.
interval_mask_open(disp, roi) ==
    [k \in DOMAIN disp |-> disp[k] >= roi.x1 /\ disp[k] < roi.x2]

\* The samples of `disp` inside one ROI: (disp >= x1) & (disp <= x2).
interval_mask(disp, roi) ==
    [k \in DOMAIN disp |-> disp[k] >= roi.x1 /\ disp[k] <= roi.x2]

\* The mask of a non-empty mask_holder: the union of its masks, and then the
\* layer's own mask.
combine_masks(mask_holder, layer_mask) ==
    logical_and(layer_mask, reduce_or(mask_holder))

\* (mutant) the mask get_roi_mask starts from is the layer's own mask.
initial_mask_layer(layer) == layer.layer_mask

\* np.ones(layer.masked_dispersion.shape): the mask get_roi_mask starts from
\* and returns when there is no ROI.
initial_mask(layer) == [k \in DOMAIN layer.disp |-> TRUE]

get_roi_mask(ps, rs, layer, roi) ==
    LET c == get_plot_index(ps, layer)
    IN  IF c = 0 THEN NoMask
        ELSE LET container == ps[c]
                 ones == initial_mask(layer)
                 used == IF roi # NoRoi THEN <<roi>> ELSE rs
                 mask_holder == [k \in DOMAIN used |->
                                    interval_mask(container.layer.disp, used[k])]
             IN  IF Len(mask_holder) > 0
                 THEN combine_masks(mask_holder, container.layer.layer_mask)
                 ELSE ones

\* pyfocal's get_roi_mask: the containers are the plots, container.dispersion
\* is the dispersion of the container's layer; with no ROI one all-true mask
\* is put in mask_holder, and the layer's own mask is not applied.
pyfocal_get_roi_mask(containers, rs, layer, roi) ==
    LET c == get_plot_index(containers, layer)
    IN  IF c = 0 THEN NoMask
        ELSE LET container == containers[c]
                 used == IF roi # NoRoi THEN <<roi>> ELSE rs
                 found == [k \in DOMAIN used |->
                              interval_mask(container.layer.disp, used[k])]
                 mask_holder == IF Len(found) = 0
                                THEN <<[k \in DOMAIN container.layer.disp |-> TRUE]>>
                                ELSE found
             IN  reduce_or(mask_holder)

\* roi.sigRegionChangeFinished for the ROI at position k, after the user has
\* dragged it to `region`: on_updated_rois, then changed_roi_mask with the
\* mask of the first layer. With no plot get_all_layers()[0] raises
\* IndexError and changed_roi_mask is not emitted.
region_change_finished(k, region) ==
    /\ k \in DOMAIN rois
    /\ region # <<rois[k].x1, rois[k].x2>>
    /\ rois' = [rois EXCEPT ![k].x1 = region[1], ![k].x2 = region[2]]
    /\ events' =
          <<Event("on_updated_rois", rois')>> \o
          (IF Len(plots) = 0 THEN <<Event("IndexError", None)>>
           ELSE <<Event("changed_roi_mask",
                        get_roi_mask(plots, rois', get_all_layers[1], NoRoi))>>)
    /\ call' = Call("region_change_finished", [roi |-> rois[k].id])
    /\ UNCHANGED <<plots, plot_units, axis_layer, items, view>>
    /\ UNCHANGED <<markerVars, windowVars, zoom_thread>>

\* The user pans or zooms the plot horizontally.
x_range_changed(xr) ==
    /\ xr # view[1]
    /\ view' = <<xr, view[2]>>
    /\ events' = <<>>
    /\ call' = Call("x_range_changed", NoArg)
    /\ UNCHANGED <<plots, plot_units, axis_layer, rois, items>>
    /\ UNCHANGED <<markerVars, windowVars, zoom_thread>>

\* ------------------------------------------------------------------ equivalent width (pyfocal)

\* The pyfocal window keeps, beside the regular ROIs of _rois, the ROIs of
\* its equivalent-width mode in _equiv_width_rois.  Their regions are kept
\* in tenths of the grid, since their spacing is 1.1 times their width.
EquivWidthItem(roi) == <<"equiv_width_roi", roi.id>>
AttachedRois == {it \in BagToSet(items) : it[1] = "roi"}
AttachedEquivWidthRois == {it \in BagToSet(items) : it[1] = "equiv_width_roi"}
RoiObjects == {rois[k].id : k \in DOMAIN rois}
                \cup {equiv_width.rois[k].id : k \in DOMAIN equiv_width.rois}

\* removeItem, then addItem, for every ROI of a list in turn.
RoiItems(rs) == [k \in DOMAIN rs |-> RoiItem(rs[k])]
EquivWidthItems(rs) == [k \in DOMAIN rs |-> EquivWidthItem(rs[k])]
RECURSIVE remove_all(_, _)
remove_all(bag, its) ==
    IF its = <<>> THEN bag
    ELSE remove_all(removeItem(bag, Head(its)), Tail(its))
RECURSIVE add_all(_, _)
add_all(bag, its) ==
    IF its = <<>> THEN bag
    ELSE add_all(addItem(bag, Head(its)), Tail(its))

\* (mutant) the equivalent-width ROIs are made at every call.
equiv_width_rois_missing_always(ew_rois) == TRUE

\* add_equiv_width_rois makes the ROIs only when it has none yet.
equiv_width_rois_missing(ew_rois) == Len(ew_rois) = 0

\* The loop `for i in range(3)` of add_equiv_width_rois, from i on: a quarter
\* of the view wide, 1.1 widths apart.
RECURSIVE new_equiv_width_rois(_, _, _, _)
new_equiv_width_rois(ew_rois, view_range, used, i) ==
    IF i >= 3 THEN ew_rois
    ELSE LET x_len == (view_range[1][2] - view_range[1][1]) \div 4
             x_pos == 10 * view_range[1][1] + 11 * x_len * i
             roi == [id |-> FreshId(used), x1 |-> x_pos,
                     x2 |-> x_pos + 10 * x_len]
         IN  new_equiv_width_rois(Append(ew_rois, roi), view_range,
                                  used \cup {roi.id}, i + 1)

\* add_equiv_width_rois: the regular ROIs are detached, the equivalent-width
\* ROIs made if need be and published, and attached.
add_equiv_width_rois(bag, rs, ew_rois, view_range, used) ==
    LET detached == remove_all(bag, RoiItems(rs))
        made == equiv_width_rois_missing(ew_rois)
        now == IF made
               THEN new_equiv_width_rois(ew_rois, view_range, used, 0)
               ELSE ew_rois
    IN  [items |-> add_all(detached, EquivWidthItems(now)),
         rois |-> now,
         events |-> IF made THEN <<Event("on_update_roi", now)>> ELSE <<>>]

\* remove_equiv_width_rois: the equivalent-width ROIs are detached and the
\* ROIs of _rois attached.
remove_equiv_width_rois(bag, rs, ew_rois) ==
    add_all(remove_all(bag, EquivWidthItems(ew_rois)), RoiItems(rs))

\* actionEquivalent_Width.triggered(on): the action is a check box of the
\* menu, so `on` is the opposite of what it was.
toggle_equiv_width ==
    LET on == ~equiv_width.checked
        added == add_equiv_width_rois(items, rois, equiv_width.rois, view,
                                      RoiObjects)
    IN  /\ IF on
           THEN /\ items' = added.items
                /\ events' = added.events
                /\ equiv_width' = [checked |-> TRUE, rois |-> added.rois,
                                   insert_disabled |-> TRUE]
           ELSE /\ items' = remove_equiv_width_rois(items, rois, equiv_width.rois)
                /\ events' = <<>>
                /\ equiv_width' = [equiv_width EXCEPT !.checked = FALSE,
                                                      !.insert_disabled = FALSE]
        /\ call' = Call("toggle_equiv_width", [on |-> on])
        /\ UNCHANGED <<plots, plot_units, axis_layer, rois, view>>
        /\ UNCHANGED <<markerVars, zoom_thread, disp_line, other, closed>>

\* pyfocal's add_roi, the slot of actionInsert_ROI.triggered: the action
\* triggers nothing while it is disabled.
pyfocal_add_roi ==
    /\ ~equiv_width.insert_disabled
    /\ Len(rois) < MaxRois
    /\ LET se == default_bounds(view)
           roi == [id |-> FreshId(RoiObjects), x1 |-> se[1], x2 |-> se[2]]
       IN  /\ rois' = Append(rois, roi)
           /\ items' = addItem(items, RoiItem(roi))
           /\ events' = <<Event("on_update_roi", <<roi>>)>>
           /\ call' = Call("add_roi", [bounds |-> NoBounds, roi |-> roi.id,
                                       rois |-> rois, items |-> items])
    /\ UNCHANGED <<plots, plot_units, axis_layer, view>>
    /\ UNCHANGED <<markerVars, windowVars, zoom_thread>>

\* sigRemoveRequested of the regular ROI at position k, which the user can
\* ask of an attached ROI only: pyfocal's closure `remove`, then the lambda.
pyfocal_remove_requested(k) ==
    /\ k \in DOMAIN rois
    /\ BagIn(RoiItem(rois[k]), items)
    /\ rois' = list_remove(rois, rois[k])
    /\ items' = removeItem(items, RoiItem(rois[k]))
    /\ events' = <<Event("on_update_roi", <<rois[k]>>)>>
    /\ call' = Call("remove", [roi |-> rois[k].id, undoes_add |-> FALSE,
                               rois |-> rois, items |-> items])
    /\ UNCHANGED <<plots, plot_units, axis_layer, view>>
    /\ UNCHANGED <<markerVars, windowVars, zoom_thread>>

\* sigRegionChangeFinished of the equivalent-width ROI at position k, which
\* the user dragged to `region`.
equiv_width_region_change_finished(k, region) ==
    /\ k \in DOMAIN equiv_width.rois
    /\ BagIn(EquivWidthItem(equiv_width.rois[k]), items)
    /\ <<equiv_width.rois[k].x1, equiv_width.rois[k].x2>>
            # <<10 * region[1], 10 * region[2]>>
    /\ equiv_width' = [equiv_width EXCEPT !.rois[k].x1 = 10 * region[1],
                                          !.rois[k].x2 = 10 * region[2]]
    /\ events' = <<Event("on_update_roi", equiv_width'.rois)>>
    /\ call' = Call("equiv_width_region_change_finished",
                    [roi |-> equiv_width.rois[k].id])
    /\ UNCHANGED <<plots, plot_units, axis_layer, rois, items, view>>
    /\ UNCHANGED <<markerVars, zoom_thread, disp_line, other, closed>>

\* ------------------------------------------------------------------ line lists

\* What ingest(waverange) loads: the catalogs, each with its name, its
\* wavelengths and the colour and height its rows have before a pane sets
\* them.  Heights are in halves of the view: 0, 1, 2 stand for 0, 0.5, 1.
LoadedLineLists ==
    << [name |-> "A", waves |-> <<3, 5>>, color |-> "black", height |-> 0],
       [name |-> "B", waves |-> <<4>>, color |-> "black", height |-> 0] >>

Pane(z_ok, z, color, h_ok, h) ==
    [redshift_ok |-> z_ok, redshift |-> z, color |-> color,
     height_ok |-> h_ok, height |-> h]
TableView(name, rows, pane) == [name |-> name, rows |-> rows, pane |-> pane]

\* The table views (each with its pane) an on_plot_linelists event carries.
TableViewSets ==
    { <<TableView("A", <<1, 2>>, Pane(FALSE, 1, "red", FALSE, 2)),
        TableView("B", <<1>>, Pane(TRUE, 1, "blue", TRUE, 2))>>,
      <<TableView("X", <<1>>, Pane(TRUE, 0, "green", TRUE, 1)),
        TableView("A", <<2>>, Pane(TRUE, 0, "red", TRUE, 1))>> }

ViewNames(table_views) == [v \in DOMAIN table_views |-> table_views[v].name]

\* LineList.extract_rows: the rows of the selection, without markers.
extract_rows(line_list, rows) ==
    [k \in DOMAIN rows |->
        [name |-> line_list.name, wave |-> line_list.waves[rows[k]],
         redshifted |-> line_list.waves[rows[k]], color |-> line_list.color,
         height |-> line_list.height, marker |-> NoMarker]]
setRedshift(rows, z) ==
    [k \in DOMAIN rows |-> [rows[k] EXCEPT !.redshifted = rows[k].wave * (1 + z)]]
setColor(rows, color) == [k \in DOMAIN rows |-> [rows[k] EXCEPT !.color = color]]
setHeight(rows, h) == [k \in DOMAIN rows |-> [rows[k] EXCEPT !.height = h]]

\* (mutant) the pane's colour is not set on the rows.
new_list_uncoloured(table_view, line_list) ==
    LET pane == table_view.pane
        extracted == extract_rows(line_list, table_view.rows)
        shifted == IF pane.redshift_ok THEN setRedshift(extracted, pane.redshift)
                   ELSE extracted
    IN  IF pane.height_ok THEN setHeight(shifted, pane.height) ELSE shifted

\* The body of _plot_linelists' inner loop for a line list of the view's name.
new_list(table_view, line_list) ==
    LET pane == table_view.pane
        extracted == extract_rows(line_list, table_view.rows)
        shifted == IF pane.redshift_ok THEN setRedshift(extracted, pane.redshift)
                   ELSE extracted
        colored == setColor(shifted, pane.color)
    IN  IF pane.height_ok THEN setHeight(colored, pane.height) ELSE colored

\* (mutant) a view that no line list is named as takes the first line list.
RECURSIVE rows_of_view_or_first(_, _, _)
rows_of_view_or_first(table_view, lls, k) ==
    IF k > Len(lls) THEN <<>>
    ELSE (IF \/ lls[k].name = table_view.name
             \/ (k = 1 /\ \A j \in DOMAIN lls : lls[j].name # table_view.name)
          THEN new_list(table_view, lls[k])
          ELSE <<>>) \o rows_of_view_or_first(table_view, lls, k + 1)

\* for k in range(len(self.linelists)): the rows of the lists named as the view.
RECURSIVE rows_of_view(_, _, _)
rows_of_view(table_view, lls, k) ==
    IF k > Len(lls) THEN <<>>
    ELSE (IF lls[k].name = table_view.name THEN new_list(table_view, lls[k])
          ELSE <<>>) \o rows_of_view(table_view, lls, k + 1)

\* LineList.merge(linelists_with_selections, units): the rows of the
\* selections, one list after the other.
RECURSIVE merge(_, _, _)
merge(table_views, lls, v) ==
    IF v > Len(table_views) THEN <<>>
    ELSE rows_of_view(table_views[v], lls, 1) \o merge(table_views, lls, v + 1)

\* (mutant) the height without the offset of the lower end of the range.
compute_height_no_offset(rows, yrange) ==
    [k \in DOMAIN rows |-> ((yrange[2] - yrange[1]) * rows[k].height) \div 2]

\* _compute_height: (ymax - ymin) * HEIGHT + ymin, HEIGHT in halves.
compute_height(rows, yrange) ==
    [k \in DOMAIN rows |->
        ((yrange[2] - yrange[1]) * rows[k].height) \div 2 + yrange[1]]

MarkerItem(m) == <<"marker", m.id>>
MarkerIds(rows) == {rows[k].marker.id : k \in DOMAIN rows} \ {NoMarker.id}
AttachedMarkers == {it \in BagToSet(items) : it[1] = "marker"}
UsedMarkerIds ==
    {it[2] : it \in AttachedMarkers} \cup MarkerIds(merged.rows)
        \cup UNION {MarkerIds(stack[f].rows) : f \in DOMAIN stack}

\* _go_plot_markers' first loop: a new LineIDMarker for every row, from row k.
RECURSIVE new_markers(_, _, _, _)
new_markers(rows, height, used, k) ==
    IF k > Len(rows) THEN rows
    ELSE LET id == FreshId(used)
             marker == [id |-> id, x |-> rows[k].redshifted, y |-> height[k],
                        short_form |-> FALSE]
         IN  new_markers([rows EXCEPT ![k].marker = marker], height,
                         used \cup {id}, k + 1)

\* The MARKER_COLUMN of a line list, and the list with that column replaced.
marker_column(rows) == [k \in DOMAIN rows |-> rows[k].marker]
with_marker_column(rows, markers) ==
    [k \in DOMAIN rows |-> [rows[k] EXCEPT !.marker = markers[k]]]

\* (mutant) the rule the comments of _clean_markers keep: a marker less than
\* 20 to the right of its predecessor shows the short form of its label.
cleaned_markers_short_form(markers, xrange) ==
    LET x == [k \in DOMAIN markers |-> markers[k].x]
        p == [k \in DOMAIN x |-> x[k] - xrange[1]]
        differences == [k \in 1..(Len(p) - 1) |-> p[k + 1] - p[k]]
    IN  [k \in DOMAIN markers |->
            IF k \in DOMAIN differences
            THEN [markers[k] EXCEPT !.short_form = differences[k] < 20]
            ELSE markers[k]]

\* _clean_markers: it computes the x positions, their offsets from xmin and
\* the differences of neighbours, and assigns nothing to any marker.
cleaned_markers(markers, xrange) ==
    LET x == [k \in DOMAIN markers |-> markers[k].x]
        p == [k \in DOMAIN x |-> x[k] - xrange[1]]
        differences == [k \in 1..(Len(p) - 1) |-> p[k + 1] - p[k]]
    IN  markers

\* ------------------------------------------------------------------ handlers in progress

\* A handler that is running: which one (fn), where it is (pc and the loop
\* index i), the merged line list it is building (rows), the y range it was
\* called with (yr), and whether a range change it caused found no
\* subscription to call (fired).
Frame(fn, pc, i, rows, yr, fired) ==
    [fn |-> fn, pc |-> pc, i |-> i, rows |-> rows, yr |-> yr, fired |-> fired]
Top == stack[1]
Running(fn, pc) == stack # <<>> /\ Top.fn = fn /\ Top.pc = pc

\* sigYRangeChanged.emit: one call of _process_zoom_signal per connection.
emit_sigYRangeChanged(n) ==
    [k \in 1..n |-> Frame("zoom", "begin", 0, <<>>, <<0, 0>>, FALSE)]

\* addItem and removeItem update the auto range: when the attached items
\* changed, the y range may change to yr, and the signal is emitted at once,
\* inside the call.  `top` is the running handler after the call.
range_changes(changed, yr) == changed /\ yr # view[2]
view_after_item(changed, yr) ==
    IF range_changes(changed, yr) THEN <<view[1], yr>> ELSE view
stack_after_item(top, changed, yr) ==
    IF range_changes(changed, yr)
    THEN emit_sigYRangeChanged(connections)
            \o <<[top EXCEPT !.fired = top.fired \/ (top.fn = "zoom" /\ connections = 0)]>>
            \o Tail(stack)
    ELSE <<top>> \o Tail(stack)

\* ------------------------------------------------------------------ markers

plotVars == <<plots, plot_units, axis_layer, rois, events>>

\* _request_linelists: _find_wavelength_range reads self._plot_units, an
\* attribute that exists only after the first plot; without it the handler
\* raises before it assigns self.linelists.
request_linelists ==
    /\ stack = <<>>
    /\ linelists' = IF plot_units = NoUnits THEN linelists ELSE LoadedLineLists
    /\ UNCHANGED <<windowVars, zoom_thread, plotVars, items, view, call, merged, is_displaying_markers,
                   is_selected, linelist_window, connections, stack>>

\* _set_selection_state, on_activated_window(window).
set_selection_state(window) ==
    /\ stack = <<>>
    /\ is_selected' = (window = "self")
    /\ UNCHANGED <<windowVars, zoom_thread, plotVars, items, view, call, linelists, merged,
                   is_displaying_markers, linelist_window, connections, stack>>

\* _show_linelists_window.
show_linelists_window ==
    /\ stack = <<>>
    /\ linelist_window' = (is_selected \/ linelist_window)
    /\ UNCHANGED <<windowVars, zoom_thread, plotVars, items, view, call, linelists, merged,
                   is_displaying_markers, is_selected, connections, stack>>

\* _dismiss_linelists_window.
dismiss_linelists_window ==
    /\ stack = <<>>
    /\ linelist_window' = (linelist_window /\ ~is_selected)
    /\ UNCHANGED <<windowVars, zoom_thread, plotVars, items, view, call, linelists, merged,
                   is_displaying_markers, is_selected, connections, stack>>

\* _plot_linelists up to its call of _remove_linelabels_from_plot.  The event
\* comes from the plot button of this window's line-list window when the
\* window is the selected one, so a selected window has its line-list window.
plot_linelists(table_views) ==
    /\ stack = <<>>
    /\ is_selected => linelist_window
    /\ Cardinality(AttachedMarkers) < MaxMarkerItems
    /\ IF ~is_selected
       THEN UNCHANGED <<stack, call>>
       ELSE /\ stack' = <<Frame("plot", "remove", 1,
                                merge(table_views, linelists, 1), <<0, 0>>, FALSE)>>
            /\ call' = Call("plot_linelists", [views |-> ViewNames(table_views)])
    /\ UNCHANGED <<windowVars, zoom_thread, plotVars, items, view, linelists, merged,
                   is_displaying_markers, is_selected, linelist_window, connections>>

\* self._is_displaying_markers after erase_linelabels acted.
displaying_after_erase_kept == is_displaying_markers
displaying_after_erase == FALSE

\* erase_linelabels up to its call of _remove_linelabels_from_plot.
erase_linelabels ==
    /\ stack = <<>>
    /\ IF linelist_window /\ is_selected
       THEN /\ is_displaying_markers' = displaying_after_erase
            /\ stack' = <<Frame("erase", "remove", 1, <<>>, <<0, 0>>, FALSE)>>
            /\ call' = Call("erase_linelabels",
                            [displayed |-> merged.set /\ is_displaying_markers,
                             done |-> FALSE, items |-> EmptyBag, yr |-> view[2]])
       ELSE UNCHANGED <<is_displaying_markers, stack, call>>
    /\ UNCHANGED <<windowVars, zoom_thread, plotVars, items, view, linelists, merged, is_selected,
                   linelist_window, connections>>

\* One turn of the loop of _remove_linelabels_from_plot, in _plot_linelists
\* or in erase_linelabels: removeItem(marker_column[index]).
remove_linelabels_from_plot ==
    /\ stack # <<>> /\ Top.pc = "remove"
    /\ merged.set /\ Top.i <= Len(merged.rows)
    /\ \E yr \in YRanges :
        LET after == removeItem(items, MarkerItem(merged.rows[Top.i].marker))
            top == [Top EXCEPT !.i = Top.i + 1]
        IN  /\ items' = after
            /\ view' = view_after_item(after # items, yr)
            /\ stack' = stack_after_item(top, after # items, yr)
    /\ UNCHANGED <<windowVars, zoom_thread, plotVars, call, linelists, merged, is_displaying_markers,
                   is_selected, linelist_window, connections>>

RemovedAll == ~merged.set \/ Top.i > Len(merged.rows)

\* erase_linelabels after _remove_linelabels_from_plot returned.
erase_linelabels_end ==
    /\ Running("erase", "remove") /\ RemovedAll
    /\ stack' = Tail(stack)
    /\ call' = Call("erase_linelabels",
                    [call.arg EXCEPT !.done = TRUE, !.items = items, !.yr = view[2]])
    /\ UNCHANGED <<windowVars, zoom_thread, plotVars, items, view, linelists, merged,
                   is_displaying_markers, is_selected, linelist_window, connections>>

\* _go_plot_markers up to its last loop: the heights from the view as it is
\* now, a new marker in every row of the new merged line list, and
\* _clean_markers on the markers.
go_plot_markers ==
    /\ Running("plot", "remove") /\ RemovedAll
    /\ LET height == compute_height(Top.rows, view[2])
           made == new_markers(Top.rows, height, UsedMarkerIds, 1)
           rows == with_marker_column(
                       made, cleaned_markers(marker_column(made), view[1]))
       IN  stack' = <<[Top EXCEPT !.pc = "add", !.i = 1, !.rows = rows,
                                  !.yr = view[2]]>> \o Tail(stack)
    /\ UNCHANGED <<windowVars, zoom_thread, plotVars, items, view, call, linelists, merged,
                   is_displaying_markers, is_selected, linelist_window, connections>>

\* One turn of the last loop of _go_plot_markers: addItem(marker).
go_plot_markers_add ==
    /\ Running("plot", "add") /\ Top.i <= Len(Top.rows)
    /\ \E yr \in YRanges :
        LET after == addItem(items, MarkerItem(Top.rows[Top.i].marker))
            top == [Top EXCEPT !.i = Top.i + 1]
        IN  /\ items' = after
            /\ view' = view_after_item(TRUE, yr)
            /\ stack' = stack_after_item(top, TRUE, yr)
    /\ UNCHANGED <<windowVars, zoom_thread, plotVars, call, linelists, merged, is_displaying_markers,
                   is_selected, linelist_window, connections>>

\* (mutant) _plot_linelists with its three commented-out lines at work: a
\* new buffer and a started thread.
zoom_thread_started(zt) == [started |-> 1, buffer |-> <<>>]

\* The zoom thread and buffer after _plot_linelists: the lines that made a
\* ZoomEventBuffer and started a ZoomMarkersThread are comments.
zoom_thread_after_plot(zt) == zt

\* The zoom thread and buffer after _process_zoom_signal read the range yr:
\* the put into the buffer is a comment.
zoom_buffer_after_signal(zt, yr) == zt

\* _plot_linelists after _go_plot_markers returned.
plot_linelists_end ==
    /\ Running("plot", "add") /\ Top.i > Len(Top.rows)
    /\ is_displaying_markers' = TRUE
    /\ zoom_thread' = zoom_thread_after_plot(zoom_thread)
    /\ merged' = [set |-> TRUE, rows |-> Top.rows]
    /\ stack' = Tail(stack)
    /\ UNCHANGED <<windowVars, plotVars, items, view, call, linelists, is_selected,
                   linelist_window, connections>>

\* ------------------------------------------------------------------ zoom

\* The user zooms or pans: the y range changes and sigYRangeChanged is emitted.
y_range_changed(yr) ==
    /\ stack = <<>>
    /\ yr # view[2]
    /\ view' = <<view[1], yr>>
    /\ stack' = emit_sigYRangeChanged(connections)
    /\ UNCHANGED <<windowVars, zoom_thread, plotVars, items, call, linelists, merged,
                   is_displaying_markers, is_selected, linelist_window, connections>>

\* The connections after handle_zoom's disconnect and after its connect.
after_disconnect_kept(n) == n
after_disconnect(n) == n - 1
after_connect(n) == n + 1

\* (mutant) handle_zoom guarded by the existence of the merged list alone.
handle_zoom_guard_list_only(list, displaying) == list.set

\* handle_zoom's guard: hasattr(self, '_merged_linelist') and
\* self._is_displaying_markers.
handle_zoom_guard(list, displaying) == list.set /\ displaying

\* _process_zoom_signal and handle_zoom up to its first loop: the guard, the
\* disconnect, and the range the heights are computed from.
process_zoom_signal ==
    /\ Running("zoom", "begin")
    /\ IF handle_zoom_guard(merged, is_displaying_markers)
       THEN /\ connections' = after_disconnect(connections)
            /\ stack' = <<[Top EXCEPT !.pc = "rebuild", !.i = 1, !.yr = view[2]]>>
                            \o Tail(stack)
       ELSE /\ stack' = Tail(stack)
            /\ UNCHANGED connections
    /\ zoom_thread' = zoom_buffer_after_signal(zoom_thread, view[2])
    /\ UNCHANGED <<windowVars, plotVars, items, view, call, linelists, merged,
                   is_displaying_markers, is_selected, linelist_window>>

\* (mutant) the row's marker itself, moved to the new height.
moved_marker(marker, y) == [marker EXCEPT !.y = y]

\* new_marker = LineIDMarker(marker=marker); new_marker.setPos(marker.x(), y):
\* another object, at the x of the old one.
rebuilt_marker(marker, y) ==
    [marker EXCEPT !.id = FreshId(UsedMarkerIds), !.x = marker.x, !.y = y]

\* One turn of handle_zoom's first loop: the row's marker is removed from the
\* plot and a new marker, at the new height, takes its place in the row.
handle_zoom_rebuild ==
    /\ Running("zoom", "rebuild") /\ Top.i <= Len(merged.rows)
    /\ \E yr \in YRanges :
        LET marker == merged.rows[Top.i].marker
            height_array == compute_height(merged.rows, Top.yr)
            after == removeItem(items, MarkerItem(marker))
            new_marker == rebuilt_marker(marker, height_array[Top.i])
            top == [Top EXCEPT !.i = Top.i + 1]
        IN  /\ items' = after
            /\ merged' = [merged EXCEPT !.rows[Top.i].marker = new_marker]
            /\ view' = view_after_item(after # items, yr)
            /\ stack' = stack_after_item(top, after # items, yr)
    /\ UNCHANGED <<windowVars, zoom_thread, plotVars, call, linelists, is_displaying_markers,
                   is_selected, linelist_window, connections>>

\* handle_zoom between its loops: _clean_markers(marker_column, xrange) on
\* the markers of the merged line list.
clean_markers ==
    /\ Running("zoom", "rebuild") /\ Top.i > Len(merged.rows)
    /\ merged' = [merged EXCEPT !.rows =
                     with_marker_column(
                         merged.rows,
                         cleaned_markers(marker_column(merged.rows), view[1]))]
    /\ stack' = <<[Top EXCEPT !.pc = "add", !.i = 1]>> \o Tail(stack)
    /\ UNCHANGED <<windowVars, zoom_thread, plotVars, items, view, call, linelists,
                   is_displaying_markers, is_selected, linelist_window, connections>>

\* One turn of handle_zoom's second loop: addItem(marker).
handle_zoom_add ==
    /\ Running("zoom", "add") /\ Top.i <= Len(merged.rows)
    /\ \E yr \in YRanges :
        LET after == addItem(items, MarkerItem(merged.rows[Top.i].marker))
            top == [Top EXCEPT !.i = Top.i + 1]
        IN  /\ items' = after
            /\ view' = view_after_item(TRUE, yr)
            /\ stack' = stack_after_item(top, TRUE, yr)
    /\ UNCHANGED <<windowVars, zoom_thread, plotVars, call, linelists, merged, is_displaying_markers,
                   is_selected, linelist_window, connections>>

\* handle_zoom's last statement: the connect; then the handler returns.
handle_zoom_end ==
    /\ Running("zoom", "add") /\ Top.i > Len(merged.rows)
    /\ connections' = after_connect(connections)
    /\ stack' = Tail(stack)
    /\ UNCHANGED <<windowVars, zoom_thread, plotVars, items, view, call, linelists, merged,
                   is_displaying_markers, is_selected, linelist_window>>

\* ------------------------------------------------------------------ windows

\* The plot windows of the application: this one and, once it is created,
\* one other.  A window is live from its construction to its closeEvent.
Windows == {"self", "other"}
Live(w) == w \notin closed /\ (w = "self" \/ other.exists)
WindowState(w) ==
    IF w = "self"
    THEN [is_selected |-> is_selected, linelist_window |-> linelist_window]
    ELSE [is_selected |-> other.is_selected,
          linelist_window |-> other.linelist_window]

\* The three line-list window handlers, on the attributes of one window.
set_selection_state_of(st, w, window) == [st EXCEPT !.is_selected = (window = w)]
show_linelists_window_of(st) ==
    IF st.is_selected THEN [st EXCEPT !.linelist_window = TRUE] ELSE st
dismiss_linelists_window_of(st) ==
    IF st.is_selected /\ st.linelist_window
    THEN [st EXCEPT !.linelist_window = FALSE]
    ELSE st

\* dispatch.<event>.emit: the listener of every live window runs; after[w] is
\* what it leaves in window w.  A window that was torn down has no listeners.
dispatch_emit(after) ==
    /\ is_selected' =
          IF Live("self") THEN after["self"].is_selected ELSE is_selected
    /\ linelist_window' =
          IF Live("self") THEN after["self"].linelist_window ELSE linelist_window
    /\ other' =
          IF Live("other")
          THEN [other EXCEPT !.is_selected = after["other"].is_selected,
                             !.linelist_window = after["other"].linelist_window]
          ELSE other

\* What no line-list window handler touches.
windowFrame == <<plots, plot_units, axis_layer, rois, items, view, linelists,
                 merged, is_displaying_markers, connections, stack,
                 disp_line, zoom_thread, equiv_width>>

\* The line-list windows as they are, for `call`.
LineListWindows ==
    [w \in Windows |-> Live(w) /\ WindowState(w).linelist_window]

\* Another PlotSubWindow is constructed: _is_selected is True and
\* _linelist_window is None.
new_plot_window ==
    /\ ~other.exists
    /\ other' = [exists |-> TRUE, is_selected |-> TRUE, linelist_window |-> FALSE]
    /\ events' = <<>>
    /\ call' = Call("new_plot_window", NoArg)
    /\ UNCHANGED <<windowFrame, is_selected, linelist_window, closed>>

\* on_activated_window(window): window is a live plot window, or "none" for
\* any other window of the application.
on_activated_window(window) ==
    /\ window = "none" \/ Live(window)
    /\ dispatch_emit([w \in Windows |->
                        set_selection_state_of(WindowState(w), w, window)])
    /\ events' = <<>>
    /\ call' = Call("on_activated_window", [window |-> window])
    /\ UNCHANGED <<windowFrame, closed>>

\* on_show_linelists_window.
on_show_linelists_window ==
    /\ dispatch_emit([w \in Windows |-> show_linelists_window_of(WindowState(w))])
    /\ events' = <<>>
    /\ call' = Call("on_show_linelists_window", NoArg)
    /\ UNCHANGED <<windowFrame, closed>>

\* on_dismiss_linelists_window.
on_dismiss_linelists_window ==
    /\ dispatch_emit([w \in Windows |-> dismiss_linelists_window_of(WindowState(w))])
    /\ events' = <<>>
    /\ call' = Call("on_dismiss_linelists_window", NoArg)
    /\ UNCHANGED <<windowFrame, closed>>

\* closeEvent of window w: on_dismiss_linelists_window is emitted to every
\* live window, then the listeners of w are torn down.
closeEvent(w) ==
    /\ Live(w)
    /\ dispatch_emit([v \in Windows |-> dismiss_linelists_window_of(WindowState(v))])
    /\ closed' = closed \cup {w}
    /\ events' = <<Event("on_dismiss_linelists_window", NoArg)>>
    /\ call' = Call("closeEvent", [window |-> w, before |-> LineListWindows])
    /\ UNCHANGED windowFrame

\* ------------------------------------------------------------------ Spec

\* PlotSubWindow.__init__: no plots, no ROIs, and only the dispersion
\* indicator line attached, at 0.
Init ==
    /\ plots = <<>>
    /\ plot_units = NoUnits
    /\ axis_layer = NoLayer
    /\ rois = <<>>
    /\ items = SetToBag({DispLineItem})
    /\ view = <<<<0, 8>>, <<0, 10>>>>
    /\ events = <<>>
    /\ call = Call("init", NoArg)
    /\ linelists = <<>>
    /\ merged = NoList
    /\ is_displaying_markers = FALSE
    /\ is_selected = TRUE
    /\ linelist_window = FALSE
    /\ connections = 1
    /\ stack = <<>>
    /\ disp_line = 0
    /\ zoom_thread = [started |-> 0, buffer |-> <<>>]
    /\ other = NoWindow
    /\ closed = {}
    /\ equiv_width = [checked |-> FALSE, rois |-> <<>>, insert_disabled |-> FALSE]

\* The plots of one window.
Next ==
    \/ \E layer \in LayerPool, window \in {None, "self", "other"}, accept \in BOOLEAN :
          Len(plots) < MaxPlots /\ add_plot(layer, window, accept)
    \/ \E layer \in LayerPool, window \in {None, "self", "other"} :
          remove_plot(layer, window)
    \/ \E u \in UnitPairs : change_units(u[1], u[2])
    \/ \E pos \in PosPool : move_vertical_line(pos)

Spec == Init /\ [][Next]_vars

\* The ROIs of one window that shows at most MaxRoiPlots plots.
NextRoi ==
    \/ \E layer \in LayerPool :
          Len(plots) < MaxRoiPlots /\ add_plot(layer, None, FALSE)
    \/ \E bounds \in RoiBounds \cup {NoBounds} : add_roi(bounds)
    \/ \E k \in 1..MaxRois : remove_requested(k)
    \/ \E key \in Keys, hovered \in SUBSET (1..MaxRois) : eventFilter(key, hovered)
    \/ \E k \in 1..MaxRois, region \in RoiBounds : region_change_finished(k, region)
    \/ \E xr \in XRanges : x_range_changed(xr)

SpecRoi == Init /\ [][NextRoi]_vars

\* The line-list markers of a window.  A range change that add_plot's addItem
\* causes is a y_range_changed after it: add_plot and handle_zoom read and
\* write different parts of the state.
NextMarkers ==
    \/ \E layer \in {LayerA} :
            stack = <<>> /\ Len(plots) < MaxRoiPlots /\ add_plot(layer, None, FALSE)
    \/ request_linelists
    \/ \E window \in {"self", "other"} : set_selection_state(window)
    \/ show_linelists_window
    \/ dismiss_linelists_window
    \/ \E table_views \in TableViewSets : plot_linelists(table_views)
    \/ erase_linelabels
    \/ remove_linelabels_from_plot
    \/ erase_linelabels_end
    \/ go_plot_markers
    \/ go_plot_markers_add
    \/ plot_linelists_end
    \/ \E yr \in YRanges : y_range_changed(yr)
    \/ process_zoom_signal
    \/ handle_zoom_rebuild
    \/ clean_markers
    \/ handle_zoom_add
    \/ handle_zoom_end

SpecMarkers == Init /\ [][NextMarkers]_vars

\* The plot windows of the application and their line-list windows.
NextWindows ==
    \/ new_plot_window
    \/ \E window \in Windows \cup {"none"} : on_activated_window(window)
    \/ on_show_linelists_window
    \/ on_dismiss_linelists_window
    \/ \E w \in Windows : closeEvent(w)

SpecWindows == Init /\ [][NextWindows]_vars

\* The plots of one window, their check boxes and the active plot.
NextActive ==
    \/ \E layer \in LayerPool, accept \in BOOLEAN :
          Len(plots) < MaxPlots /\ add_plot(layer, None, accept)
    \/ \E layer \in LayerPool : remove_plot(layer, "self")
    \/ \E layer \in LayerPool : select_plot(layer)
    \/ \E k \in 1..MaxPlots : plot_checked_changed(k)

SpecActive == Init /\ [][NextActive]_vars

\* The regular and the equivalent-width ROIs of the pyfocal window.
NextEquivWidth ==
    \/ toggle_equiv_width
    \/ pyfocal_add_roi
    \/ \E k \in 1..MaxRois : pyfocal_remove_requested(k)
    \/ \E k \in 1..3, region \in RoiBounds :
          equiv_width_region_change_finished(k, region)
    \/ \E xr \in XRanges : x_range_changed(xr)

SpecEquivWidth == Init /\ [][NextEquivWidth]_vars

\* ------------------------------------------------------------------ claims

InRoi(w, roi) == roi.x1 <= w /\ w <= roi.x2
InSomeRoi(w) == \E r \in DOMAIN rois : InRoi(w, rois[r])
RoiIds(rs) == {rs[k].id : k \in DOMAIN rs}
PlotIds(ps) == [k \in DOMAIN ps |-> ps[k].id]

\* C2: with at least one ROI, get_roi_mask(layer) of a displayed layer is
\* true at a sample exactly when the sample lies in some ROI (bounds
\* included) and the layer's own mask is true there; get_roi_mask(layer,
\* roi=r) is true exactly when the sample lies in r and the layer's mask is
\* true.
C2_RoiMaskIsUnionAndLayerMask ==
    rois # <<>> =>
        \A p \in DOMAIN plots :
            LET layer == plots[p].layer
                all == get_roi_mask(plots, rois, layer, NoRoi)
            IN  /\ DOMAIN all = DOMAIN layer.disp
                /\ \A i \in DOMAIN layer.disp :
                      all[i] <=> (InSomeRoi(layer.disp[i]) /\ layer.layer_mask[i])
                /\ \A r \in DOMAIN rois :
                      LET one == get_roi_mask(plots, rois, layer, rois[r])
                      IN  /\ DOMAIN one = DOMAIN layer.disp
                          /\ \A i \in DOMAIN layer.disp :
                                one[i] <=> (InRoi(layer.disp[i], rois[r])
                                            /\ layer.layer_mask[i])

\* C2 witness: two ROIs and a displayed layer with a sample on the upper
\* bound of one ROI only, a sample inside a ROI that the layer masks, and a
\* sample outside every ROI.
C2_Witness ==
    /\ Len(rois) = 2
    /\ \E p \in DOMAIN plots :
          LET layer == plots[p].layer
          IN  /\ \E i \in DOMAIN layer.disp :
                    /\ layer.layer_mask[i]
                    /\ \E r \in DOMAIN rois :
                          /\ layer.disp[i] = rois[r].x2
                          /\ \A q \in DOMAIN rois \ {r} : ~InRoi(layer.disp[i], rois[q])
              /\ \E i \in DOMAIN layer.disp :
                    InSomeRoi(layer.disp[i]) /\ ~layer.layer_mask[i]
              /\ \E i \in DOMAIN layer.disp : ~InSomeRoi(layer.disp[i])

\* C3: with no ROI, get_roi_mask of a displayed layer is true at every sample
\* and as long as the layer's dispersion, whatever the layer's own mask is;
\* so is pyfocal's.
C3_NoRoiMaskIsAllTrue ==
    rois = <<>> =>
        \A p \in DOMAIN plots :
            LET layer == plots[p].layer
                mask == get_roi_mask(plots, rois, layer, NoRoi)
                old == pyfocal_get_roi_mask(plots, rois, layer, NoRoi)
            IN  /\ Len(mask) = Len(layer.disp)
                /\ \A i \in 1..Len(layer.disp) : mask[i]
                /\ Len(old) = Len(layer.disp)
                /\ \A i \in 1..Len(layer.disp) : old[i]

\* C3 witness: no ROI, after ROIs were added and removed, and a displayed
\* layer whose own mask is false at a sample.
C3_Witness ==
    /\ rois = <<>>
    /\ call.op = "remove"
    /\ \E p \in DOMAIN plots :
          \E i \in DOMAIN plots[p].layer.disp : ~plots[p].layer.layer_mask[i]

\* C4: after add_roi and then a remove request on the ROI just added, the
\* ROI list (order included) and the attached items are those from before
\* the add_roi.
C4_AddThenRemoveRestores ==
    (call.op = "remove" /\ call.arg.undoes_add) =>
        /\ rois = call.arg.rois
        /\ items = call.arg.items

\* C4 witness: the ROI just added was removed again and other ROIs remain.
C4_Witness ==
    /\ call.op = "remove"
    /\ call.arg.undoes_add
    /\ rois # <<>>
    /\ BagIn(<<"roi", rois[1].id>>, items)

\* C5: add_roi, a ROI removal and a finished ROI resize each emit
\* on_updated_rois with the ROI list as it is after the operation: the new
\* ROI is in the list published by add_roi, and the removed ROI is not in
\* the list published by a removal, which is published after removed_roi.
C5_UpdatedRoisPublished ==
    /\ call.op = "add_roi" =>
          \E k \in DOMAIN events :
              /\ events[k].name = "on_updated_rois"
              /\ events[k].arg = rois
              /\ call.arg.roi \in RoiIds(events[k].arg)
    /\ call.op = "remove" =>
          \E k \in DOMAIN events :
              /\ events[k].name = "on_updated_rois"
              /\ events[k].arg = rois
              /\ call.arg.roi \notin RoiIds(events[k].arg)
              /\ \E j \in 1..(k - 1) :
                    events[j].name = "removed_roi" /\ events[j].arg = call.arg.roi
    /\ call.op = "region_change_finished" =>
          \E k \in DOMAIN events :
              /\ events[k].name = "on_updated_rois"
              /\ events[k].arg = rois
              /\ call.arg.roi \in RoiIds(events[k].arg)

\* C5 witness: a removal that left another ROI in the list.
C5_Witness ==
    call.op = "remove" /\ rois # <<>> /\ Emitted("on_updated_rois")

\* C6: add_roi without bounds makes the ROI
\* [xmin + (xmax - xmin)/4, xmin + 3 (xmax - xmin)/4] of the horizontal
\* view range [xmin, xmax]; add_roi with bounds (a, b) makes the ROI [a, b].
C6_DefaultRoiIsMiddleHalf ==
    call.op = "add_roi" =>
        LET roi == rois[Len(rois)]
            xmin == view[1][1]
            xmax == view[1][2]
        IN  /\ roi.id = call.arg.roi
            /\ IF call.arg.bounds = NoBounds
               THEN /\ 4 * (roi.x1 - xmin) = xmax - xmin
                    /\ 4 * (roi.x2 - xmin) = 3 * (xmax - xmin)
               ELSE <<roi.x1, roi.x2>> = call.arg.bounds

\* C6 witness: a ROI added without bounds in a view that does not start at 0.
C6_Witness ==
    /\ call.op = "add_roi"
    /\ call.arg.bounds = NoBounds
    /\ view[1][1] # 0

NoAddedEvent(evs) ==
    \A k \in DOMAIN evs : evs[k].name \notin {"on_added_layer", "on_added_plot"}

\* The flags of the unit conversion add_plot makes for `layer`: none for the
\* first plot of the window, else that of the new plot (of the resampled
\* layer, when the user accepted) to the window's units.
ConversionOf(layer, accept) ==
    IF Len(plots) = 0 THEN <<TRUE, TRUE>>
    ELSE LinePlot_change_units(from_layer(layer_after_prompt(layer, accept)),
                               plot_units[1], plot_units[2]).ok

C8_FailedConversionRejected ==
    [][\A layer \in LayerPool, window \in {None, "self"}, accept \in BOOLEAN :
          (add_plot(layer, window, accept)
                /\ ConversionOf(layer, accept) # <<TRUE, TRUE>>) =>
              /\ plots' = plots
              /\ items' = items
              /\ events' = <<Event("on_remove_layer",
                                   layer_after_prompt(layer, accept))>>
              /\ NoAddedEvent(events')]_vars

\* C8 witness: an add_plot was rejected, with on_remove_layer, for a layer
\* of which exactly one unit converts to the window's.
C8_Witness ==
    /\ call.op = "add_plot"
    /\ Emitted("on_remove_layer")
    /\ plots # <<>>
    /\ LinePlot_change_units(from_layer(events[1].arg),
                             plot_units[1], plot_units[2]).ok
            \in {<<TRUE, FALSE>>, <<FALSE, TRUE>>}

\* C16: after a finished resize of a ROI the events published are
\* on_updated_rois and then changed_roi_mask, and nothing was raised, in
\* every reachable state of the window, a window without plots included.
C16_ResizePublishesRoisThenMask ==
    call.op = "region_change_finished" =>
        /\ Len(events) = 2
        /\ events[1].name = "on_updated_rois"
        /\ events[2].name = "changed_roi_mask"
        /\ ~Emitted("IndexError")

\* C23: after remove_plot(layer) addressed to this window (window None or
\* the window itself) no plot of _plots has that layer, none of the curve,
\* error and mask items of the plots that had it is attached, and the plots
\* of other layers are in _plots, in their order, with their items attached
\* as before.
C23_RemovePlotRemovesEveryPlotOfLayer ==
    [][\A layer \in LayerPool, window \in {None, "self"} :
          remove_plot(layer, window) =>
              LET other_layer(p) == p.layer # layer
              IN  /\ \A k \in DOMAIN plots' : plots'[k].layer # layer
                  /\ \A k \in DOMAIN plots :
                        plots[k].layer = layer =>
                            /\ ~BagIn(CurveItem(plots[k]), items')
                            /\ ~BagIn(ErrorItem(plots[k]), items')
                            /\ ~BagIn(MaskItem(plots[k]), items')
                  /\ plots' = SelectSeq(plots, other_layer)
                  /\ \A k \in DOMAIN plots :
                        plots[k].layer # layer =>
                            /\ CopiesIn(CurveItem(plots[k]), items')
                                  = CopiesIn(CurveItem(plots[k]), items)
                            /\ CopiesIn(ErrorItem(plots[k]), items')
                                  = CopiesIn(ErrorItem(plots[k]), items)
                            /\ CopiesIn(MaskItem(plots[k]), items')
                                  = CopiesIn(MaskItem(plots[k]), items)]_vars

\* C24: a Delete or Backspace key press removes every ROI that is hovered at
\* that moment (it is detached, dropped from _rois and announced by
\* removed_roi), leaves the other ROIs in place and in order, and consumes
\* the event, however many ROIs are hovered and wherever they are in _rois.
C24_DeleteRemovesEveryHoveredRoi ==
    [][\A key \in {"Delete", "Backspace"}, hovered \in SUBSET RoiIds(rois) :
          eventFilter(key, hovered) =>
              LET not_hovered(roi) == roi.id \notin hovered
              IN  /\ rois' = SelectSeq(rois, not_hovered)
                  /\ \A k \in DOMAIN rois :
                        IF rois[k].id \in hovered
                        THEN /\ ~BagIn(RoiItem(rois[k]), items')
                             /\ \E e \in DOMAIN events' :
                                   /\ events'[e].name = "removed_roi"
                                   /\ events'[e].arg = rois[k].id
                        ELSE BagIn(RoiItem(rois[k]), items')
                  /\ call'.arg.consumed]_vars

\* C25: in every state add_plot, remove_plot and change_units reach, every
\* plot of _plots is expressed in the window's plot units: its x and y units
\* are those of _plot_units.
C25_PlotsInWindowUnits ==
    \A k \in DOMAIN plots :
        plots[k].units = <<plot_units[1], plot_units[2]>>

\* C26: whenever the window has at least one plot, the dynamic top axis
\* references the layer of the first plot of _plots.
C26_AxisLayerIsFirstPlotLayer ==
    plots # <<>> => axis_layer = plots[1].layer

\* The visibility set_active_plot(layer) is to leave in the plots ps: an
\* unchecked plot shows nothing, a checked plot shows its data, and error
\* and mask are shown only by a checked plot of `layer`, and only when
\* disable_errors, respectively disable_mask, is false.
ActiveIs(ps, layer) ==
    \A k \in DOMAIN ps :
        IF ps[k].checked
        THEN /\ ps[k].vis_data
             /\ ps[k].vis_error => (ps[k].layer = layer /\ ~disable_errors)
             /\ ps[k].vis_mask => (ps[k].layer = layer /\ ~disable_mask)
        ELSE ~ps[k].vis_data /\ ~ps[k].vis_error /\ ~ps[k].vis_mask

\* C27: after set_active_plot(layer) the plots are shown as ActiveIs says
\* for `layer`, and after a successful add_plot as it says for the layer of
\* the new plot.
C27_ActivePlotVisibility ==
    /\ call.op = "set_active_plot" => ActiveIs(plots, call.arg.layer)
    /\ (call.op = "add_plot" /\ Emitted("on_added_plot")) =>
            ActiveIs(plots, plots[Len(plots)].layer)

\* ---- the dispersion indicator line

RowMarkerItems(rows) == {MarkerItem(rows[k].marker) : k \in DOMAIN rows}
ZoomFrames == {f \in DOMAIN stack : stack[f].fn = "zoom"}
RebuildingFrames == {f \in ZoomFrames : stack[f].pc \in {"rebuild", "add"}}
ErasedDisplayedMarkers ==
    call.op = "erase_linelabels" /\ call.arg.displayed /\ call.arg.done

\* C1: between events, while markers are displayed the markers attached to
\* the plot are exactly the markers in the rows of the current merged line
\* list, each attached once; when none are displayed (erased, or never
\* plotted) no marker is attached.
C1_AttachedMarkersAreMergedMarkers ==
    stack = <<>> =>
        IF merged.set /\ is_displaying_markers
        THEN /\ AttachedMarkers = RowMarkerItems(merged.rows)
             /\ \A it \in AttachedMarkers : CopiesIn(it, items) = 1
             /\ \A j, k \in DOMAIN merged.rows :
                    merged.rows[j].marker.id = merged.rows[k].marker.id => j = k
        ELSE AttachedMarkers = {}

\* C9: while handle_zoom is past its disconnect (rebuilding or re-adding the
\* markers) sigYRangeChanged has no connection to _process_zoom_signal, and
\* at any other time it has exactly one; no handle_zoom is ever started
\* while another one is running.
C9_ZoomSubscriptionDetachedWhileRebuilding ==
    /\ Cardinality(ZoomFrames) <= 1
    /\ connections = IF RebuildingFrames = {} THEN 1 ELSE 0

\* A handle_zoom about to return whose own addItem or removeItem changed the
\* y range while the subscription was detached.
C9_Witness ==
    /\ Running("zoom", "add") /\ Top.i > Len(merged.rows)
    /\ Top.fired
    /\ connections = 0

HeightOf(row, yr) ==
    /\ 2 * (row.marker.y - yr[1]) = (yr[2] - yr[1]) * row.height
    /\ row.height \in 0..2 => (yr[1] <= row.marker.y /\ row.marker.y <= yr[2])
    /\ (yr = <<0, 10>> /\ row.height = 1) => row.marker.y = 5

\* C11: the markers handle_zoom has rebuilt so far are at the height the
\* formula gives for the y range handle_zoom was called with, and the
\* markers _go_plot_markers made are at the height it gives for the y
\* range of the view when they were made.
C11_MarkerHeightFormula ==
    \A f \in DOMAIN stack :
        /\ (stack[f].fn = "plot" /\ stack[f].pc = "add") =>
                \A k \in DOMAIN stack[f].rows :
                    HeightOf(stack[f].rows[k], stack[f].yr)
        /\ (stack[f].fn = "zoom" /\ stack[f].pc \in {"rebuild", "add"}) =>
                \A k \in DOMAIN merged.rows :
                    (stack[f].pc = "add" \/ k < stack[f].i) =>
                        HeightOf(merged.rows[k], stack[f].yr)

\* A handle_zoom called with the range (0, 10) has rebuilt the marker of a
\* row of height fraction 0.5 at 5.
C11_Witness ==
    /\ Running("zoom", "add")
    /\ Top.yr = <<0, 10>>
    /\ \E k \in DOMAIN merged.rows :
            merged.rows[k].height = 1 /\ merged.rows[k].marker.y = 5

\* ---- rebuilt markers

RowsButMarkers(rows) == [k \in DOMAIN rows |-> [rows[k] EXCEPT !.marker = NoMarker]]

\* C12: each turn of handle_zoom's first loop detaches the row's marker and
\* stores in the same row another marker object with the same x; each turn
\* of its second loop attaches the row's new marker; the rows, but for their
\* markers, are the same in the same order; and when handle_zoom returns
\* every row's marker is attached once.
C12_ZoomReplacesMarkers ==
    [][/\ handle_zoom_rebuild =>
            LET old == merged.rows[Top.i].marker
                new == merged'.rows[Top.i].marker
            IN  /\ new.id # old.id
                /\ new.id \notin UsedMarkerIds
                /\ new.x = old.x
                /\ ~BagIn(MarkerItem(old), items')
                /\ RowsButMarkers(merged'.rows) = RowsButMarkers(merged.rows)
                /\ \A k \in DOMAIN merged.rows :
                        k # Top.i => merged'.rows[k] = merged.rows[k]
       /\ handle_zoom_add =>
            /\ CopiesIn(MarkerItem(merged.rows[Top.i].marker), items') = 1
            /\ merged' = merged
       /\ handle_zoom_end =>
            /\ merged' = merged
            /\ \A k \in DOMAIN merged.rows :
                    CopiesIn(MarkerItem(merged.rows[k].marker), items') = 1
      ]_vars

\* A handle_zoom that is about to return has rebuilt and attached the
\* markers of a merged line list of two rows or more.
C12_Witness ==
    /\ Running("zoom", "add") /\ Top.i > Len(merged.rows)
    /\ Len(merged.rows) >= 2
    /\ \A k \in DOMAIN merged.rows :
            CopiesIn(MarkerItem(merged.rows[k].marker), items) = 1

\* ---- the merge

Matched(table_view) ==
    \E k \in DOMAIN linelists : linelists[k].name = table_view.name
ListNamed(name) ==
    linelists[CHOOSE k \in DOMAIN linelists : linelists[k].name = name]
SelectionSizes(table_views) ==
    [v \in DOMAIN table_views |->
        IF Matched(table_views[v]) THEN Len(table_views[v].rows) ELSE 0]

\* `rows` are the selected rows of the views named as a loaded line list,
\* each with the settings of the pane of its own view.
MergedAsSelected(table_views, rows) ==
    /\ Len(rows) = SeqSum(SelectionSizes(table_views))
    /\ \A v \in DOMAIN table_views : \A r \in DOMAIN table_views[v].rows :
            Matched(table_views[v]) =>
                Cardinality({j \in DOMAIN rows :
                    /\ rows[j].name = table_views[v].name
                    /\ rows[j].wave =
                         ListNamed(table_views[v].name).waves[table_views[v].rows[r]]}) = 1
    /\ \A j \in DOMAIN rows :
            /\ \E v \in DOMAIN table_views : table_views[v].name = rows[j].name
            /\ \A v \in DOMAIN table_views :
                    table_views[v].name = rows[j].name =>
                        LET pane == table_views[v].pane
                            list == ListNamed(rows[j].name)
                        IN  /\ rows[j].color = pane.color
                            /\ rows[j].redshifted =
                                    IF pane.redshift_ok
                                    THEN rows[j].wave * (1 + pane.redshift)
                                    ELSE rows[j].wave
                            /\ rows[j].height =
                                    IF pane.height_ok THEN pane.height
                                    ELSE list.height

\* C13: the line list _plot_linelists merges has exactly the selected rows
\* of every view named as a loaded line list (as many rows as the
\* selections have together), and every row has the colour of the pane of
\* its own view and, when the pane's input is acceptable, its redshift and
\* its height (else what extract_rows gave the row).
C13_MergedRowsAsSelected ==
    [][\A table_views \in TableViewSets :
          (is_selected /\ plot_linelists(table_views)) =>
              MergedAsSelected(table_views, stack'[1].rows)]_vars

\* The merged line list on display has the two selected rows of A, red and
\* not redshifted, and the selected row of B, blue and redshifted.
C13_Witness ==
    /\ stack = <<>> /\ merged.set /\ is_displaying_markers
    /\ Len(merged.rows) = 3
    /\ Cardinality({j \in DOMAIN merged.rows :
            /\ merged.rows[j].name = "A" /\ merged.rows[j].color = "red"
            /\ merged.rows[j].redshifted = merged.rows[j].wave}) = 2
    /\ Cardinality({j \in DOMAIN merged.rows :
            /\ merged.rows[j].name = "B" /\ merged.rows[j].color = "blue"
            /\ merged.rows[j].redshifted = 2 * merged.rows[j].wave}) = 1

\* C14: a view named as no loaded line list gives the merge no row: the
\* merged rows are those of the views that are named as one, as if the
\* other views were not there, and _plot_linelists goes on to plot them.
C14_UnmatchedViewSkipped ==
    [][\A table_views \in TableViewSets :
          (is_selected /\ plot_linelists(table_views)) =>
              /\ stack'[1].rows = merge(SelectSeq(table_views, Matched), linelists, 1)
              /\ \A j \in DOMAIN stack'[1].rows :
                    \E k \in DOMAIN linelists :
                        linelists[k].name = stack'[1].rows[j].name
              /\ stack'[1].fn = "plot" /\ stack'[1].pc = "remove"]_vars

\* Markers are displayed after a plot event whose first view, X, is named as
\* no loaded line list: the one selected row of its second view, A.
C14_Witness ==
    /\ stack = <<>> /\ merged.set /\ is_displaying_markers
    /\ call = Call("plot_linelists", [views |-> <<"X", "A">>])
    /\ linelists = LoadedLineLists
    /\ Len(merged.rows) = 1 /\ merged.rows[1].name = "A"
    /\ BagIn(MarkerItem(merged.rows[1].marker), items)

\* C17: _clean_markers suppresses nothing.  The call in handle_zoom leaves
\* the merged line list (every marker, its position and label form, the
\* order and the number of rows) and the attached items as they were; the
\* call in _go_plot_markers hands on the markers exactly as the loop before
\* it made them.
C17_CleanMarkersChangesNothing ==
    [][/\ (Running("zoom", "rebuild") /\ clean_markers) =>
              /\ merged' = merged
              /\ items' = items
       /\ (Running("plot", "remove") /\ go_plot_markers) =>
              stack'[1].rows =
                  new_markers(Top.rows, compute_height(Top.rows, view[2]),
                              UsedMarkerIds, 1)]_vars

\* C17 witness: handle_zoom has just called _clean_markers on two markers
\* that lie closer than 20 to one another, and both show the long form.
C17_Witness ==
    /\ Running("zoom", "add") /\ Top.i = 1
    /\ Len(merged.rows) >= 2
    /\ merged.rows[2].marker.x - merged.rows[1].marker.x < 20
    /\ \A k \in DOMAIN merged.rows : ~merged.rows[k].marker.short_form

\* C18: no ZoomMarkersThread is ever started and nothing is ever put into a
\* ZoomEventBuffer; a zoom signal is handled inside the call that delivers
\* it: while _process_zoom_signal or its handle_zoom is the innermost
\* running handler, a step either returns from it or leaves every handler
\* beneath it where it was.
C18_ZoomHandledSynchronously ==
    /\ [](zoom_thread = [started |-> 0, buffer |-> <<>>])
    /\ [][(stack # <<>> /\ Top.fn = "zoom") =>
              \/ stack' = Tail(stack)
              \/ /\ Len(stack') >= Len(stack)
                 /\ SubSeq(stack', Len(stack') - Len(stack) + 2, Len(stack'))
                        = Tail(stack)
                 /\ stack'[Len(stack') - Len(stack) + 1].fn = "zoom"]_vars

\* C18 witness: a zoom signal has been handled by handle_zoom (the markers
\* displayed stand at the heights of the new range, (2,6)) after a
\* _plot_linelists, and no thread was started and no range buffered.
C18_Witness ==
    /\ stack = <<>> /\ merged.set /\ is_displaying_markers
    /\ merged.rows # <<>>
    /\ view[2] = <<2, 6>>
    /\ \A k \in DOMAIN merged.rows :
          /\ merged.rows[k].marker.y = compute_height(merged.rows, <<2, 6>>)[k]
          /\ BagIn(MarkerItem(merged.rows[k].marker), items)
    /\ zoom_thread = [started |-> 0, buffer |-> <<>>]

\* C19: a zoom signal that arrives when the window has no merged line list
\* yet, or is not displaying markers, has no effect: the handler returns,
\* nothing is attached or detached, the merged list and the view stay as
\* they are, and the subscription of the zoom signal stays connected.
C19_ZoomWithoutMarkersDoesNothing ==
    [][(Running("zoom", "begin") /\ ~(merged.set /\ is_displaying_markers)) =>
          /\ stack' = Tail(stack)
          /\ items' = items
          /\ merged' = merged
          /\ view' = view
          /\ connections' = connections
          /\ is_displaying_markers' = is_displaying_markers]_vars

\* C19 witness: the user zoomed a window that has line lists loaded but never
\* plotted them; the signal was handled, no marker is attached and the
\* subscription is connected.
C19_Witness ==
    /\ stack = <<>>
    /\ ~merged.set
    /\ linelists # <<>>
    /\ view[2] = <<2, 6>>
    /\ AttachedMarkers = {}
    /\ connections = 1

\* ---- windows

\* C20: the closeEvent of a window W closes W's own line-list window if it
\* is still open (afterwards W's _linelist_window is None), whether or not W
\* is the selected window, and closes the line-list window of no other
\* window.
C20_CloseClosesOwnLineListWindowOnly ==
    call.op = "closeEvent" =>
        /\ ~WindowState(call.arg.window).linelist_window
        /\ \A v \in Windows \ {call.arg.window} :
              LineListWindows[v] = call.arg.before[v]

\* C22: of the live plot windows at most one has _is_selected true, in every
\* reachable state, also before the first on_activated_window event.
C22_AtMostOneWindowSelected ==
    Cardinality({w \in Windows : Live(w) /\ WindowState(w).is_selected}) <= 1

\* ---- equivalent width

EquivWidthIds == {equiv_width.rois[k].id : k \in DOMAIN equiv_width.rois}

\* C21: in the pyfocal window, with equivalent-width mode on no regular ROI
\* is attached, the three equivalent-width ROIs are (once each) and
\* Insert-ROI is disabled; with the mode off no equivalent-width ROI is
\* attached, exactly the ROIs of _rois are (once each) and Insert-ROI is
\* enabled.  So the two kinds are never attached together; and the
\* equivalent-width ROIs, once made, stay the same three objects.
C21_EquivWidthTogglesRois ==
    /\ [](IF equiv_width.checked
          THEN /\ AttachedRois = {}
               /\ Len(equiv_width.rois) = 3
               /\ \A k \in 1..3 :
                     CopiesIn(EquivWidthItem(equiv_width.rois[k]), items) = 1
               /\ Cardinality(AttachedEquivWidthRois) = 3
               /\ equiv_width.insert_disabled
          ELSE /\ AttachedEquivWidthRois = {}
               /\ AttachedRois = Range(RoiItems(rois))
               /\ \A k \in DOMAIN rois : CopiesIn(RoiItem(rois[k]), items) = 1
               /\ ~equiv_width.insert_disabled)
    /\ [](AttachedRois = {} \/ AttachedEquivWidthRois = {})
    /\ [][equiv_width.rois # <<>> =>
              [k \in 1..3 |-> equiv_width'.rois[k].id]
                  = [k \in 1..3 |-> equiv_width.rois[k].id]]_vars

\* C21 witness: over two regular ROIs the mode was switched on, an
\* equivalent-width ROI was dragged to 4, and the mode was switched off and
\* on again: the same equivalent-width ROIs are attached, the regular ones
\* are not.
C21_Witness ==
    /\ equiv_width.checked
    /\ call.op = "toggle_equiv_width"
    /\ Len(rois) = 2
    /\ AttachedRois = {}
    /\ Cardinality(AttachedEquivWidthRois) = 3
    /\ EquivWidthIds \cap RoiObjects = EquivWidthIds
    /\ \E k \in 1..3 : equiv_width.rois[k].x1 = 10 * 4

====
